---- MODULE Spec2Model ----
(***************************************************************************)
(* Material scattering core of the ray tracer (src/src/material.h).        *)
(*                                                                         *)
(* A C++ double is modelled as an exact rational <<n, d>> in lowest terms  *)
(* with d > 0.  +, -, *, / and the comparisons are exact; sqrt is exact on *)
(* rational squares and rounded down to 1/SqrtScale elsewhere.  A vec3, a  *)
(* point3 and a color are triples of rationals.                            *)
(***************************************************************************)
EXTENDS Integers, Sequences, FiniteSets, TLC

----------------------------------------------------------------------------
(* double arithmetic *)

Abs(n) == IF n < 0 THEN -n ELSE n

RECURSIVE GCD(_, _)
GCD(a, b) == IF b = 0 THEN a ELSE GCD(b, a % b)

\* the double n/d (d # 0), in lowest terms with a positive denominator
Rat(n, d) ==
    LET g == GCD(Abs(n), Abs(d))
        s == IF d < 0 THEN -1 ELSE 1
    IN  << (s * n) \div g, (s * d) \div g >>

Zero == Rat(0, 1)
One  == Rat(1, 1)

\* sums, products and comparisons cancel common factors first, so that
\* intermediate integers stay small
RAdd(a, b) ==
    LET g == GCD(a[2], b[2])
    IN  Rat(a[1] * (b[2] \div g) + b[1] * (a[2] \div g), (a[2] \div g) * b[2])
RNeg(a)    == << -a[1], a[2] >>
RSub(a, b) == RAdd(a, RNeg(b))
RMul(a, b) ==
    LET x == Rat(a[1], b[2])
        y == Rat(b[1], a[2])
    IN  Rat(x[1] * y[1], x[2] * y[2])
RDiv(a, b) == RMul(a, Rat(b[2], b[1]))
RLt(a, b)  ==
    LET g == GCD(a[2], b[2])
    IN  a[1] * (b[2] \div g) < b[1] * (a[2] \div g)
RGt(a, b)  == RLt(b, a)
RLe(a, b)  == ~RLt(b, a)

\* fmin(a, b)
FMin(a, b) == IF RLt(b, a) THEN b ELSE a

\* pow(a, k) for a natural exponent k
RECURSIVE RPow(_, _)
RPow(a, k) == IF k = 0 THEN One ELSE RMul(a, RPow(a, k - 1))

\* floor of the square root of a natural number, by bisection on lo..hi
RECURSIVE ISqrtIn(_, _, _)
ISqrtIn(n, lo, hi) ==
    IF lo = hi THEN lo
    ELSE LET mid == (lo + hi + 1) \div 2
         IN  IF mid * mid <= n THEN ISqrtIn(n, mid, hi)
                               ELSE ISqrtIn(n, lo, mid - 1)

ISqrt(n) == ISqrtIn(n, 0, IF n < 40000 THEN n ELSE 40000)

IsSquare(n) == ISqrt(n) * ISqrt(n) = n

\* resolution of an inexact square root
SqrtScale == 100

\* sqrt(a) for a >= 0
Sqrt(a) ==
    IF IsSquare(a[1]) /\ IsSquare(a[2])
    THEN Rat(ISqrt(a[1]), ISqrt(a[2]))
    ELSE Rat(ISqrt((a[1] * SqrtScale * SqrtScale) \div a[2]), SqrtScale)

\* const double pi, cut to six significant digits
pi == Rat(314159, 100000)

----------------------------------------------------------------------------
(* vec3 *)

Vec(x, y, z) == << x, y, z >>
VecI(x, y, z, d) == << Rat(x, d), Rat(y, d), Rat(z, d) >>

VAdd(a, b)   == << RAdd(a[1], b[1]), RAdd(a[2], b[2]), RAdd(a[3], b[3]) >>
VScale(t, a) == << RMul(t, a[1]), RMul(t, a[2]), RMul(t, a[3]) >>
VNeg(a)      == << RNeg(a[1]), RNeg(a[2]), RNeg(a[3]) >>
VSub(a, b)   == VAdd(a, VNeg(b))

dot(a, b) == RAdd(RAdd(RMul(a[1], b[1]), RMul(a[2], b[2])), RMul(a[3], b[3]))

cross(a, b) ==
    << RSub(RMul(a[2], b[3]), RMul(a[3], b[2])),
       RSub(RMul(a[3], b[1]), RMul(a[1], b[3])),
       RSub(RMul(a[1], b[2]), RMul(a[2], b[1])) >>

length_squared(a) == dot(a, a)
length(a)         == Sqrt(length_squared(a))
unit_vector(a)    == VScale(RDiv(One, length(a)), a)

\* reflect(v, n) = v - 2*dot(v,n)*n
reflect(v, n) == VSub(v, VScale(RMul(Rat(2, 1), dot(v, n)), n))

\* refract(uv, n, etai_over_etat): perpendicular plus parallel component
refract(uv, n, etai_over_etat) ==
    LET cos_theta      == FMin(dot(VNeg(uv), n), One)
        r_out_perp     == VScale(etai_over_etat, VAdd(uv, VScale(cos_theta, n)))
        d              == RSub(One, length_squared(r_out_perp))
        r_out_parallel == VScale(RNeg(Sqrt(IF RLt(d, Zero) THEN RNeg(d) ELSE d)), n)
    IN  VAdd(r_out_perp, r_out_parallel)

----------------------------------------------------------------------------
(* ray, hit_record, texture, onb, random directions *)

\* ray(origin, direction, time)
ray(origin, direction, time) == [orig |-> origin, dir |-> direction, tm |-> time]

P0 == VecI(0, 0, 0, 1)
P1 == VecI(1, 0, 2, 1)

\* surface coordinates and points a texture is looked up at
UVs    == { Zero, Rat(1, 2) }
Points == { P0, P1 }
Coords == UVs \X UVs \X Points

Black == VecI(0, 0, 0, 1)
Grey  == VecI(1, 1, 1, 2)
White == VecI(1, 1, 1, 1)
Colors == { Grey, White }

\* solid_color(c): the texture whose value is c everywhere
solid_color(c) == [x \in Coords |-> c]

\* a texture whose value varies with each of u, v and p
uvp_texture == [x \in Coords |-> Vec(x[1], x[2], x[3][3])]

Textures == { solid_color(c) : c \in Colors } \cup { uvp_texture }

\* texture::value(u, v, p)
value(tex, u, v, p) == tex[<< u, v, p >>]

\* onb::build_from_w(n): the frame <<u, v, w>> with w == n
build_from_w(n) ==
    LET helper == IF RGt(Rat(Abs(n[2][1]), n[2][2]), Rat(9, 10))
                  THEN VecI(1, 0, 0, 1) ELSE VecI(0, 1, 0, 1)
        v      == unit_vector(cross(helper, n))
        u      == cross(v, n)
    IN  [u |-> u, v |-> v, w |-> n]

\* onb::local(a) = a.x*u + a.y*v + a.z*w
local(uvw, a) ==
    VAdd(VAdd(VScale(a[1], uvw.u), VScale(a[2], uvw.v)), VScale(a[3], uvw.w))

\* cos(2*pi*r1) and sin(2*pi*r1) at the quarter turns
QuarterTurns == { Rat(k, 4) : k \in 0..3 }
cos_2pi(r1) == CASE r1 = Rat(0, 4) -> One
                 [] r1 = Rat(1, 4) -> Zero
                 [] r1 = Rat(2, 4) -> RNeg(One)
                 [] r1 = Rat(3, 4) -> Zero
sin_2pi(r1) == CASE r1 = Rat(0, 4) -> Zero
                 [] r1 = Rat(1, 4) -> One
                 [] r1 = Rat(2, 4) -> Zero
                 [] r1 = Rat(3, 4) -> RNeg(One)

\* random_cosine_direction() for the two uniform draws r1, r2 in [0,1)
random_cosine_direction(r1, r2) ==
    LET x == RMul(cos_2pi(r1), Sqrt(r2))
        y == RMul(sin_2pi(r1), Sqrt(r2))
        z == Sqrt(RSub(One, r2))
    IN  Vec(x, y, z)

----------------------------------------------------------------------------
(* the materials: constructors *)

\* every material object has the same shape; a variant uses its own fields
Material(kind, tex, albedo, fuzz, ir) ==
    [kind |-> kind, tex |-> tex, albedo |-> albedo, fuzz |-> fuzz, ir |-> ir]

\* lambertian(const color& a), lambertian(shared_ptr<texture> a)
lambertian_color(a) == Material("lambertian", solid_color(a), Black, Zero, Zero)
lambertian_tex(a)   == Material("lambertian", a, Black, Zero, Zero)

\* metal(const color& a, double f)
metal(a, f) ==
    Material("metal", solid_color(Black), a, IF RLt(f, One) THEN f ELSE One, Zero)

\* dielectric(double index_of_refraction)
dielectric(index_of_refraction) ==
    Material("dielectric", solid_color(Black), Black, Zero, index_of_refraction)

\* diffuse_light(shared_ptr<texture> a), diffuse_light(color c)
diffuse_light_tex(a)   == Material("diffuse_light", a, Black, Zero, Zero)
diffuse_light_color(c) == Material("diffuse_light", solid_color(c), Black, Zero, Zero)

\* isotropic(color c), isotropic(shared_ptr<texture> a)
isotropic_color(c) == Material("isotropic", solid_color(c), Black, Zero, Zero)
isotropic_tex(a)   == Material("isotropic", a, Black, Zero, Zero)

----------------------------------------------------------------------------
(* the materials: operations.  scatter yields its return value and the     *)
(* values of its three reference parameters after the call                 *)

Outcome(ret, attenuation, scattered, pdf) ==
    [ret |-> ret, attenuation |-> attenuation, scattered |-> scattered, pdf |-> pdf]

\* what dielectric::scatter computes on its way; "called" names the function
\* that produced the outgoing direction
NoLocals ==
    [refraction_ratio |-> Zero, cos_theta |-> Zero, sin_theta |-> Zero,
     cannot_refract |-> FALSE, reflectance |-> Zero, called |-> "none"]

\* material::emitted: the default of every variant but diffuse_light
material_emitted(m, r_in, rec, u, v, p) == Black

\* material::scattering_pdf: the default of metal, dielectric, diffuse_light
material_scattering_pdf(m, r_in, rec, scattered) == Zero

\* lambertian::scatter with the pdf taken along the basis vector u
lambertian_scatter_u(m, r_in, rec, alb, scattered, pdf, r1, r2) ==
    LET uvw               == build_from_w(rec.normal)
        scatter_direction == local(uvw, random_cosine_direction(r1, r2))
        scattered_        == ray(rec.p, scatter_direction, r_in.tm)
    IN  Outcome(TRUE,
                value(m.tex, rec.u, rec.v, rec.p),
                scattered_,
                RDiv(dot(uvw.u, scattered_.dir), pi))

\* lambertian::scatter, with the two uniform draws of random_cosine_direction
lambertian_scatter(m, r_in, rec, alb, scattered, pdf, r1, r2) ==
    LET uvw               == build_from_w(rec.normal)
        scatter_direction == local(uvw, random_cosine_direction(r1, r2))
        scattered_        == ray(rec.p, scatter_direction, r_in.tm)
    IN  Outcome(TRUE,
                value(m.tex, rec.u, rec.v, rec.p),
                scattered_,
                RDiv(dot(uvw.w, scattered_.dir), pi))

\* lambertian::scattering_pdf has no return statement: the double the caller
\* reads is whatever the build leaves in the return register
UndefinedDoubles ==
    { RDiv(One, RMul(Rat(2, 1), pi)), Zero, RNeg(One), Rat(7, 10) }
lambertian_scattering_pdf(m, r_in, rec, scattered) == UndefinedDoubles

\* metal::scatter's return with >= for >
metal_returns_ge(direction, normal) == RLe(Zero, dot(direction, normal))

\* metal::scatter, with the draw of random_unit_vector
metal_returns(direction, normal) == RGt(dot(direction, normal), Zero)

\* metal::scatter that also reports a pdf
metal_scatter_pdf(m, r_in, rec, attenuation, scattered, pdf, rnd) ==
    LET reflected  == reflect(unit_vector(r_in.dir), rec.normal)
        scattered_ == ray(rec.p, VAdd(reflected, VScale(m.fuzz, rnd)), r_in.tm)
    IN  Outcome(RGt(dot(scattered_.dir, rec.normal), Zero), m.albedo, scattered_, Zero)

metal_scatter(m, r_in, rec, attenuation, scattered, pdf, rnd) ==
    LET reflected  == reflect(unit_vector(r_in.dir), rec.normal)
        scattered_ == ray(rec.p, VAdd(reflected, VScale(m.fuzz, rnd)), r_in.tm)
    IN  Outcome(metal_returns(scattered_.dir, rec.normal), m.albedo, scattered_, pdf)

\* dielectric::reflectance without the square of r0
reflectance_unsquared(cosine, ref_idx) ==
    LET r0 == RDiv(RSub(One, ref_idx), RAdd(One, ref_idx))
    IN  RAdd(r0, RMul(RSub(One, r0), RPow(RSub(One, cosine), 5)))

\* dielectric::reflectance: Schlick's approximation
reflectance(cosine, ref_idx) ==
    LET r0  == RDiv(RSub(One, ref_idx), RAdd(One, ref_idx))
        r0_ == RMul(r0, r0)
    IN  RAdd(r0_, RMul(RSub(One, r0_), RPow(RSub(One, cosine), 5)))

\* double refraction_ratio = rec.front_face ? (1.0 / ir) : ir
refraction_ratio_of(ir, front_face) == IF front_face THEN RDiv(One, ir) ELSE ir

\* cannot_refract without the refraction ratio
cannot_refract_no_ratio(refraction_ratio, sin_theta) == RGt(sin_theta, One)

\* bool cannot_refract = refraction_ratio * sin_theta > 1.0
cannot_refract_of(refraction_ratio, sin_theta) ==
    RGt(RMul(refraction_ratio, sin_theta), One)

\* dielectric::scatter up to the choice of the direction, with the draw of
\* random_double
dielectric_locals(m, r_in, rec, rnd) ==
    LET refraction_ratio == refraction_ratio_of(m.ir, rec.front_face)
        unit_direction   == unit_vector(r_in.dir)
        cos_theta        == FMin(dot(VNeg(unit_direction), rec.normal), One)
        sin_theta        == Sqrt(RSub(One, RMul(cos_theta, cos_theta)))
        cannot_refract   == cannot_refract_of(refraction_ratio, sin_theta)
        refl             == reflectance(cos_theta, refraction_ratio)
    IN  [refraction_ratio |-> refraction_ratio, cos_theta |-> cos_theta,
         sin_theta |-> sin_theta, cannot_refract |-> cannot_refract,
         reflectance |-> refl,
         called |-> IF cannot_refract \/ RGt(refl, rnd) THEN "reflect" ELSE "refract"]

dielectric_scatter(m, r_in, rec, attenuation, scattered, pdf, rnd) ==
    LET l              == dielectric_locals(m, r_in, rec, rnd)
        unit_direction == unit_vector(r_in.dir)
        direction      == IF l.called = "reflect"
                          THEN reflect(unit_direction, rec.normal)
                          ELSE refract(unit_direction, rec.normal, l.refraction_ratio)
    IN  Outcome(TRUE, White, ray(rec.p, direction, r_in.tm), pdf)

\* diffuse_light::scatter reporting a scattered ray
diffuse_light_scatter_true(m, r_in, rec, attenuation, scattered, pdf) ==
    Outcome(TRUE, attenuation, scattered, pdf)

\* diffuse_light::scatter
diffuse_light_scatter(m, r_in, rec, attenuation, scattered, pdf) ==
    Outcome(FALSE, attenuation, scattered, pdf)

\* diffuse_light::emitted with the test of front_face inverted
diffuse_light_emitted_inverted(m, r_in, rec, u, v, p) ==
    IF rec.front_face THEN Black ELSE value(m.tex, u, v, p)

\* diffuse_light::emitted
diffuse_light_emitted(m, r_in, rec, u, v, p) ==
    IF ~rec.front_face THEN Black ELSE value(m.tex, u, v, p)

\* isotropic::scatter, with the draw of random_unit_vector
isotropic_scatter(m, r_in, rec, alb, scattered, pdf, rnd) ==
    Outcome(TRUE,
            value(m.tex, rec.u, rec.v, rec.p),
            ray(rec.p, rnd, r_in.tm),
            RDiv(One, RMul(Rat(4, 1), pi)))

\* isotropic::scattering_pdf with the hemisphere's constant
isotropic_scattering_pdf_hemisphere(m, r_in, rec, scattered) ==
    RDiv(One, RMul(Rat(2, 1), pi))

\* isotropic::scattering_pdf
isotropic_scattering_pdf(m, r_in, rec, scattered) ==
    RDiv(One, RMul(Rat(4, 1), pi))

----------------------------------------------------------------------------
(* inputs *)

\* index of refraction: the halves up to MaxIr2 / 2
MaxIr2 == 4
IRs == { Rat(k, 2) : k \in 1..MaxIr2 }

\* fuzz argument of the metal constructor: the halves between -MaxFuzz2 / 2
\* and MaxFuzz2 / 2
MaxFuzz2 == 3
FuzzArgs == { Rat(k, 2) : k \in (0 - MaxFuzz2)..MaxFuzz2 }

\* unit surface normals
Normals == { VecI(0, 0, 1, 1), VecI(3, 0, 4, 5), VecI(0, 1, 0, 1) }

\* incoming rays; the directions are not normalised
RaysIn ==
    { ray(P1, VecI(0, 0, -2, 1), Zero),
      ray(P1, VecI(3, 0, -4, 1), Rat(1, 2)),
      ray(P0, VecI(4, 0, -3, 1), Zero),
      ray(P0, VecI(0, -1, 0, 1), Rat(1, 2)),
      ray(P1, VecI(-3, 0, -4, 1), Zero) }

\* hit_record: p, normal, front_face, u, v
hit_record(p, normal, front_face, u, v) ==
    [p |-> p, normal |-> normal, front_face |-> front_face, u |-> u, v |-> v]

SurfaceCoords == { << Zero, Zero, P0 >>, << Rat(1, 2), Zero, P1 >>, << Zero, Rat(1, 2), P1 >> }

HitRecords ==
    { hit_record(c[3], n, ff, c[1], c[2]) :
        c \in SurfaceCoords, n \in Normals, ff \in BOOLEAN }

\* an incoming ray with the record of its hit.  The intersection step orients
\* the normal against the ray: every direction of RaysIn has a dot product
\* <= 0 with every normal of Normals
Hits == RaysIn \X HitRecords

\* values of random_unit_vector()
UnitDraws == { VecI(0, 0, 1, 1), VecI(0, 0, -1, 1), VecI(1, 0, 0, 1), VecI(-3, 0, -4, 5) }

\* values of random_double(), in [0,1)
DoubleDraws == { Zero, Rat(1, 2), Rat(24, 25) }

\* values of the second draw of random_cosine_direction(), in [0,1)
R2Draws == { Zero, Rat(9, 25), Rat(16, 25) }

\* the caller's attenuation, scattered and pdf before a call
CallerLocals ==
    { Outcome(FALSE, Black, ray(P0, VecI(0, 0, 0, 1), Zero), Zero),
      Outcome(FALSE, VecI(1, 2, 3, 4), ray(P1, VecI(0, 1, 0, 1), Rat(1, 4)), Rat(7, 10)) }

----------------------------------------------------------------------------
(* state *)

VARIABLES
    mat,          \* the material object
    pc,           \* "idle": before a call, "returned": after it
    op,           \* the member function called last
    r_in, rec,    \* its arguments
    u, v, p,      \* emitted's coordinates
    draw,         \* the random draws the call consumed
    attenuation, scattered, pdf,   \* the caller's variables scatter writes to
    did_scatter,  \* return value of scatter
    pdf_value,    \* return value of scattering_pdf
    color_value,  \* return value of emitted
    locals        \* locals of dielectric::scatter

vars == << mat, pc, op, r_in, rec, u, v, p, draw, attenuation, scattered, pdf,
           did_scatter, pdf_value, color_value, locals >>

NoDraw == [r1 |-> Zero, r2 |-> Zero, d |-> Zero, v |-> VecI(0, 0, 0, 1)]

NoCall ==
    /\ pc' = "idle"
    /\ op' = "none"
    /\ r_in' = ray(P0, VecI(0, 0, -1, 1), Zero)
    /\ rec' = hit_record(P0, VecI(0, 0, 1, 1), TRUE, Zero, Zero)
    /\ u' = Zero /\ v' = Zero /\ p' = P0
    /\ draw' = NoDraw
    /\ did_scatter' = FALSE
    /\ pdf_value' = Zero
    /\ color_value' = Black
    /\ locals' = NoLocals

Init ==
    /\ mat = lambertian_color(Grey)
    /\ pc = "idle"
    /\ op = "none"
    /\ r_in = ray(P0, VecI(0, 0, -1, 1), Zero)
    /\ rec = hit_record(P0, VecI(0, 0, 1, 1), TRUE, Zero, Zero)
    /\ u = Zero /\ v = Zero /\ p = P0
    /\ draw = NoDraw
    /\ attenuation = Black
    /\ scattered = ray(P0, VecI(0, 0, 0, 1), Zero)
    /\ pdf = Zero
    /\ did_scatter = FALSE
    /\ pdf_value = Zero
    /\ color_value = Black
    /\ locals = NoLocals

\* between bounces a constructor runs: the scene holds the new material, and
\* no bounce has been computed with it
Construct(m) ==
    /\ pc = "idle"
    /\ mat' = m
    /\ NoCall
    /\ attenuation' = Black
    /\ scattered' = ray(P0, VecI(0, 0, 0, 1), Zero)
    /\ pdf' = Zero

NewLambertianColor == \E a \in Colors : Construct(lambertian_color(a))
NewLambertianTex   == \E a \in Textures : Construct(lambertian_tex(a))
NewMetal           == \E a \in Colors, f \in FuzzArgs : Construct(metal(a, f))
NewDielectric      == \E ir \in IRs : Construct(dielectric(ir))
NewDiffuseLightTex == \E a \in Textures : Construct(diffuse_light_tex(a))
NewDiffuseLightColor == \E c \in Colors : Construct(diffuse_light_color(c))
NewIsotropicColor  == \E c \in Colors : Construct(isotropic_color(c))
NewIsotropicTex    == \E a \in Textures : Construct(isotropic_tex(a))

\* after a call the integrator declares attenuation, scattered and pdf for the
\* next bounce
Caller ==
    /\ pc = "returned"
    /\ \E l \in CallerLocals :
        /\ attenuation' = l.attenuation
        /\ scattered' = l.scattered
        /\ pdf' = l.pdf
    /\ NoCall
    /\ UNCHANGED mat

\* a call of scatter with arguments h, draws dr and outcome o
ScatterCall(name, h, dr, o, l) ==
    /\ pc = "idle"
    /\ pc' = "returned"
    /\ op' = name
    /\ r_in' = h[1] /\ rec' = h[2]
    /\ draw' = dr
    /\ attenuation' = o.attenuation
    /\ scattered' = o.scattered
    /\ pdf' = o.pdf
    /\ did_scatter' = o.ret
    /\ locals' = l
    /\ UNCHANGED << mat, u, v, p, pdf_value, color_value >>

LambertianScatter ==
    /\ mat.kind = "lambertian"
    /\ \E h \in Hits, r1 \in QuarterTurns, r2 \in R2Draws :
        ScatterCall("lambertian.scatter", h, [NoDraw EXCEPT !.r1 = r1, !.r2 = r2],
                    lambertian_scatter(mat, h[1], h[2], attenuation, scattered, pdf, r1, r2),
                    NoLocals)

MetalScatter ==
    /\ mat.kind = "metal"
    /\ \E h \in Hits, rnd \in UnitDraws :
        ScatterCall("metal.scatter", h, [NoDraw EXCEPT !.v = rnd],
                    metal_scatter(mat, h[1], h[2], attenuation, scattered, pdf, rnd),
                    NoLocals)

DielectricScatter ==
    /\ mat.kind = "dielectric"
    /\ \E h \in Hits, rnd \in DoubleDraws :
        ScatterCall("dielectric.scatter", h, [NoDraw EXCEPT !.d = rnd],
                    dielectric_scatter(mat, h[1], h[2], attenuation, scattered, pdf, rnd),
                    dielectric_locals(mat, h[1], h[2], rnd))

DiffuseLightScatter ==
    /\ mat.kind = "diffuse_light"
    /\ \E h \in Hits :
        ScatterCall("diffuse_light.scatter", h, NoDraw,
                    diffuse_light_scatter(mat, h[1], h[2], attenuation, scattered, pdf),
                    NoLocals)

IsotropicScatter ==
    /\ mat.kind = "isotropic"
    /\ \E h \in Hits, rnd \in UnitDraws :
        ScatterCall("isotropic.scatter", h, [NoDraw EXCEPT !.v = rnd],
                    isotropic_scatter(mat, h[1], h[2], attenuation, scattered, pdf, rnd),
                    NoLocals)

\* a call of emitted with arguments h, c and result e
EmittedCall(name, h, c, e) ==
    /\ pc = "idle"
    /\ pc' = "returned"
    /\ op' = name
    /\ r_in' = h[1] /\ rec' = h[2]
    /\ u' = c[1] /\ v' = c[2] /\ p' = c[3]
    /\ color_value' = e
    /\ UNCHANGED << mat, draw, attenuation, scattered, pdf, did_scatter, pdf_value, locals >>

MaterialEmitted ==
    /\ mat.kind # "diffuse_light"
    /\ \E h \in Hits, c \in SurfaceCoords :
        EmittedCall("material.emitted", h, c,
                    material_emitted(mat, h[1], h[2], c[1], c[2], c[3]))

DiffuseLightEmitted ==
    /\ mat.kind = "diffuse_light"
    /\ \E h \in Hits, c \in SurfaceCoords :
        EmittedCall("diffuse_light.emitted", h, c,
                    diffuse_light_emitted(mat, h[1], h[2], c[1], c[2], c[3]))

\* a call of scattering_pdf(h[1], h[2], scattered) with result x
PdfCall(name, h, x) ==
    /\ pc = "idle"
    /\ pc' = "returned"
    /\ op' = name
    /\ r_in' = h[1] /\ rec' = h[2]
    /\ pdf_value' = x
    /\ UNCHANGED << mat, u, v, p, draw, attenuation, scattered, pdf, did_scatter,
                    color_value, locals >>

MaterialScatteringPdf ==
    /\ mat.kind \in { "metal", "dielectric", "diffuse_light" }
    /\ \E h \in Hits :
        PdfCall("material.scattering_pdf", h,
                material_scattering_pdf(mat, h[1], h[2], scattered))

LambertianScatteringPdf ==
    /\ mat.kind = "lambertian"
    /\ \E h \in Hits :
        \E x \in lambertian_scattering_pdf(mat, h[1], h[2], scattered) :
            PdfCall("lambertian.scattering_pdf", h, x)

IsotropicScatteringPdf ==
    /\ mat.kind = "isotropic"
    /\ \E h \in Hits :
        PdfCall("isotropic.scattering_pdf", h,
                isotropic_scattering_pdf(mat, h[1], h[2], scattered))

Next ==
    \/ NewLambertianColor
    \/ NewLambertianTex
    \/ NewMetal
    \/ NewDielectric
    \/ NewDiffuseLightTex
    \/ NewDiffuseLightColor
    \/ NewIsotropicColor
    \/ NewIsotropicTex
    \/ Caller
    \/ LambertianScatter
    \/ MetalScatter
    \/ DielectricScatter
    \/ DiffuseLightScatter
    \/ IsotropicScatter
    \/ MaterialEmitted
    \/ DiffuseLightEmitted
    \/ MaterialScatteringPdf
    \/ LambertianScatteringPdf
    \/ IsotropicScatteringPdf

Spec == Init /\ [][Next]_vars

----------------------------------------------------------------------------
(* properties *)

\* C1: diffuse_light.emitted returns exactly the texture's value(u, v, p) when
\* rec.front_face is true and exactly color(0,0,0) when it is false, whatever
\* the incoming ray and the other fields of the hit record are.
C1_EmittedByFace ==
    op = "diffuse_light.emitted" =>
        color_value = IF rec.front_face THEN mat.tex[<< u, v, p >>] ELSE Black

\* a front-face lookup of the varying texture at coordinates other than the
\* hit record's
C1_Witness ==
    /\ op = "diffuse_light.emitted"
    /\ rec.front_face
    /\ mat.tex = uvp_texture
    /\ << u, v, p >> = << Rat(1, 2), Zero, P1 >>
    /\ << rec.u, rec.v, rec.p >> = << Zero, Zero, P0 >>
    /\ color_value = Vec(Rat(1, 2), Zero, Rat(2, 1))

\* C2: lambertian.scattering_pdf returns the constant 1/(2*pi) for every
\* incoming ray, hit record and scattered ray.
C2_LambertianPdfConstant ==
    op = "lambertian.scattering_pdf" => pdf_value = Rat(50000, 314159)

\* C3: the fuzz factor stored by the metal constructor lies in [0,1], so
\* metal.scatter perturbs the mirror direction by a vector of length at most 1.
C3_FuzzInUnitInterval ==
    /\ mat.kind = "metal" => RLe(Zero, mat.fuzz) /\ RLe(mat.fuzz, One)
    /\ op = "metal.scatter" =>
        RLe(length_squared(VSub(scattered.dir,
                                reflect(unit_vector(r_in.dir), rec.normal))), One)

\* C4: metal.scatter sets scattered.direction to
\* reflect(unit(r_in.direction), rec.normal) + fuzz*r and attenuation to the
\* stored albedo, and returns true iff dot(scattered.direction, rec.normal) > 0;
\* with fuzz = 0 and dot(reflected, normal) > 0 it returns true with
\* scattered.direction the mirror reflection.
C4_MetalScatter ==
    op = "metal.scatter" =>
        LET reflected == reflect(unit_vector(r_in.dir), rec.normal)
        IN  /\ scattered.dir = VAdd(reflected, VScale(mat.fuzz, draw.v))
            /\ attenuation = mat.albedo
            /\ did_scatter <=> RGt(dot(scattered.dir, rec.normal), Zero)
            /\ (mat.fuzz = Zero /\ RGt(dot(reflected, rec.normal), Zero)) =>
                /\ did_scatter
                /\ scattered.dir = reflected
                /\ dot(scattered.dir, rec.normal)
                     = RNeg(dot(unit_vector(r_in.dir), rec.normal))
                /\ length_squared(scattered.dir) = One

\* the ray along (3,0,-4) mirrored at the normal (0,0,1) by a metal without fuzz
C4_Witness ==
    /\ op = "metal.scatter"
    /\ mat.fuzz = Zero
    /\ r_in.dir = VecI(3, 0, -4, 1)
    /\ rec.normal = VecI(0, 0, 1, 1)
    /\ did_scatter
    /\ scattered.dir = VecI(3, 0, 4, 5)

\* C5: in dielectric.scatter the refraction ratio is 1/ir on the front face and
\* ir otherwise; the outgoing direction is the refraction only when
\* ratio*sin_theta <= 1 and the random draw is not below the reflectance, and
\* the mirror reflection in every other case; refract is never invoked while
\* ratio*sin_theta > 1.
C5_DielectricBranch ==
    op = "dielectric.scatter" =>
        LET ratio  == IF rec.front_face THEN RDiv(One, mat.ir) ELSE mat.ir
            uin    == unit_vector(r_in.dir)
            tir    == RGt(RMul(ratio, locals.sin_theta), One)
            below  == RLt(draw.d, locals.reflectance)
        IN  /\ locals.refraction_ratio = ratio
            /\ locals.called \in { "reflect", "refract" }
            /\ locals.called = "refract" <=> (~tir /\ ~below)
            /\ locals.called = "refract" => scattered.dir = refract(uin, rec.normal, ratio)
            /\ locals.called = "reflect" => scattered.dir = reflect(uin, rec.normal)
            /\ locals.called = "refract" => RLe(RMul(ratio, locals.sin_theta), One)

\* total internal reflection: ratio 3/2 on the back face, sin_theta = 4/5, and
\* a draw above the reflectance
C5_Witness ==
    /\ op = "dielectric.scatter"
    /\ ~rec.front_face
    /\ mat.ir = Rat(3, 2)
    /\ locals.sin_theta = Rat(4, 5)
    /\ RLt(locals.reflectance, draw.d)
    /\ locals.called = "reflect"

\* C6: diffuse_light.scatter always returns false; lambertian.scatter,
\* dielectric.scatter and isotropic.scatter always return true, dielectric with
\* attenuation color(1,1,1).
C6_DidScatterConstant ==
    /\ op = "diffuse_light.scatter" => ~did_scatter
    /\ op \in { "lambertian.scatter", "dielectric.scatter", "isotropic.scatter" }
         => did_scatter
    /\ op = "dielectric.scatter" => attenuation = VecI(1, 1, 1, 1)

C6_Witness ==
    /\ op = "diffuse_light.scatter"
    /\ pc = "returned"
    /\ ~did_scatter
    /\ r_in.dir = VecI(4, 0, -3, 1)

\* C7: lambertian.scatter sets attenuation to the texture's
\* value(rec.u, rec.v, rec.p) (the albedo for a solid color) and pdf to
\* dot(basis.w, scattered.direction)/pi, which is > 0 and equals
\* sqrt(1 - r2)/pi.
C7_LambertianScatter ==
    op = "lambertian.scatter" =>
        /\ attenuation = mat.tex[<< rec.u, rec.v, rec.p >>]
        /\ \A c \in Colors : mat.tex = solid_color(c) => attenuation = c
        /\ pdf = RDiv(dot(rec.normal, scattered.dir), pi)
        /\ RGt(pdf, Zero)
        /\ pdf = RDiv(Sqrt(RSub(One, draw.r2)), pi)

\* the slanted normal with r2 = 9/25: cos(theta) = 4/5
C7_Witness ==
    /\ op = "lambertian.scatter"
    /\ rec.normal = VecI(3, 0, 4, 5)
    /\ draw.r1 = Rat(1, 4)
    /\ draw.r2 = Rat(9, 25)
    /\ mat.tex = solid_color(Grey)
    /\ attenuation = VecI(1, 1, 1, 2)
    /\ pdf = Rat(80000, 314159)

\* C8: at normal incidence (cos_theta = 1) the reflectance dielectric.scatter
\* compares with the draw is ((1-ir)/(1+ir))^2 on both faces; for ir = 1 it is
\* 0 and the refraction branch is taken for every draw.
C8_NormalIncidence ==
    (op = "dielectric.scatter" /\ locals.cos_theta = One) =>
        LET q == RDiv(RSub(One, mat.ir), RAdd(One, mat.ir))
        IN  /\ locals.reflectance = RMul(q, q)
            /\ mat.ir = One => (locals.reflectance = Zero /\ locals.called = "refract")

\* front face, ir = 3/2: called with the ratio 2/3, reflectance 1/25
C8_Witness ==
    /\ op = "dielectric.scatter"
    /\ locals.cos_theta = One
    /\ rec.front_face
    /\ mat.ir = Rat(3, 2)
    /\ locals.refraction_ratio = Rat(2, 3)
    /\ locals.reflectance = Rat(1, 25)

\* C9: isotropic.scattering_pdf returns 1/(4*pi) for any arguments, and
\* isotropic.scatter writes the same constant to pdf.
C9_IsotropicPdf ==
    /\ op = "isotropic.scattering_pdf" => pdf_value = Rat(25000, 314159)
    /\ op = "isotropic.scatter" => pdf = Rat(25000, 314159)

C9_Witness ==
    /\ op = "isotropic.scattering_pdf"
    /\ pdf_value = Rat(25000, 314159)
    /\ scattered.dir = VecI(0, 1, 0, 1)
    /\ ~rec.front_face

\* C10: diffuse_light.scatter leaves attenuation, scattered and pdf as the
\* caller passed them; metal.scatter and dielectric.scatter leave pdf unchanged
\* on every path, metal assigning attenuation and scattered also when it
\* returns false; of all member functions only lambertian.scatter and
\* isotropic.scatter write pdf.
C10_Frame ==
    [][ /\ op' = "diffuse_light.scatter" =>
            (attenuation' = attenuation /\ scattered' = scattered /\ pdf' = pdf)
        /\ op' \in { "metal.scatter", "dielectric.scatter" } => pdf' = pdf
        /\ (op' = "metal.scatter" /\ ~did_scatter') =>
            /\ attenuation' = mat.albedo
            /\ scattered'.orig = rec'.p
            /\ scattered'.tm = r_in'.tm
        /\ (pc = "idle" /\ pc' = "returned" /\ pdf' # pdf) =>
            op' \in { "lambertian.scatter", "isotropic.scatter" }
      ]_vars

\* metal absorbed the ray: the caller's pdf of 7/10 is still there, attenuation
\* and scattered are not
C10_Witness ==
    /\ op = "metal.scatter"
    /\ ~did_scatter
    /\ pdf = Rat(7, 10)
    /\ attenuation = mat.albedo
    /\ scattered.orig = rec.p
    /\ scattered # ray(P1, VecI(0, 1, 0, 1), Rat(1, 4))

====
